---- MODULE Spec2Model ----
(***************************************************************************)
(* Model of the learning-kit generation pipeline of backend/server.py:     *)
(* the create_learning_kit handler, cut at its suspension points (every    *)
(* awaited generator, indexer and store call), together with the user and  *)
(* kit collections it reads and writes.                                    *)
(*                                                                         *)
(* Abstractions.  Texts (topic, source content, generated artifacts) are   *)
(* opaque values; an artifact is the tuple of the generator's name and its *)
(* arguments, because the generators are deterministic templates.  A       *)
(* timestamp is the opaque value "utcnow".  An awaited call either returns *)
(* or raises an exception whose text is drawn from Errors; insert_one      *)
(* either stores the document and returns, or raises and stores nothing.   *)
(***************************************************************************)
EXTENDS Integers, Sequences, FiniteSets, TLC

\* ---------------------------------------------------------------- bounds
MaxStyles == 2        \* longest target_styles list of a request
MaxUserStyles == 1    \* longest learning_styles list stored for a user
MaxStylesPar == 1     \* longest target_styles list under interleaving
MaxStylesVal == 1     \* longest target_styles list of the runs kept small
MaxSessions == 1      \* most QA sessions stored
MaxSentences == 4     \* most sentences of a text to summarise
MaxCardSentences == 3 \* most sentences of a text to make flashcards of
MaxCount == 2         \* largest count of flashcards asked for
MaxTime == 60         \* longest available_time of a study session, in minutes
MinScore == 1         \* lowest assessment score
MaxScore == 10        \* highest assessment score
DominantScore == 7    \* score from which a style is dominant
MaxDuration == 45     \* longest suggested study_duration, in minutes
KeySentences == 3     \* sentences generate_summary looks at
KeySentenceLength == 20   \* a key sentence is longer than this
CardSentenceLength == 10  \* a flashcard sentence is longer than this
CardWords == 5        \* a flashcard sentence has more words than this
TopicWords == 20      \* words looked at for concept questions
ConceptLength == 5    \* a concept word is longer than this
HintLength == 50      \* characters of the sentence in a hint
ExcerptLength == 300  \* characters of the content in a textual summary

\* ------------------------------------------------------------- constants
MinutesPerItem == 10

VISUAL == "visual"
AUDITORY == "auditory"
TEXTUAL == "textual"
KINESTHETIC == "kinesthetic"
LearningStyle == {VISUAL, AUDITORY, TEXTUAL, KINESTHETIC}

SUMMARY == "summary"
FLASHCARDS == "flashcards"
AUDIO_LESSON == "audio_lesson"
VISUAL_DOODLE == "visual_doodle"

\* the two handler instances that may be in flight together
Runs == {1, 2}
\* the handler instance of the one-request-at-a-time specification
SeqRuns == {1}
UserIds == {"u1"}
Topics == {"t1"}
Contents == {"c1"}
\* str(e) of the exceptions an awaited call may raise
Errors == {"e1", "e2"}

\* Python's None, where a document or a response is expected
None == [none |-> TRUE]
\* no kit id drawn yet, no exception caught yet
NoId == "no_id"
Nowhere == "nowhere"

RECURSIVE SeqsUpTo(_, _)
SeqsUpTo(S, n) ==
    IF n = 0 THEN {<<>>}
    ELSE LET shorter == SeqsUpTo(S, n - 1)
         IN  shorter \cup {Append(q, x) : q \in shorter, x \in S}

VARIABLES
    users,            \* db.users: the user documents in insertion order
    learning_kits,    \* db.learning_kits: the documents in insertion order
    pc,               \* per run: the suspension point the handler waits at
    request,          \* per run: the KitCreateRequest (target_styles mutated)
    kit_id,           \* per run: the uuid4 drawn for the kit
    processing_logs,  \* per run: the local list add_log appends to
    content_items,    \* per run: the local list of generated items
    style_idx,        \* per run: position of the for loop in target_styles
    qa_index,         \* per run: result of create_qa_index
    kit,              \* per run: the LearningKit built before the insert
    error_kit,        \* per run: the reduced document built by the handler
    response,         \* per run: what the caller receives
    raised_at,        \* per run: suspension point at which the caught exception was raised
    inserts,          \* per run: number of insert_one calls issued on learning_kits
    get_result,       \* answer of the latest get_learning_kit call
    qa_sessions,      \* db.qa_sessions: the documents in insertion order
    assessments,      \* db.assessments: the documents in insertion order
    study_sessions,   \* db.study_sessions: the documents in insertion order
    reply             \* answer of the latest call of another handler or service

vars == <<users, learning_kits, pc, request, kit_id, processing_logs,
          content_items, style_idx, qa_index, kit, error_kit, response,
          raised_at, inserts, get_result, qa_sessions, assessments,
          study_sessions, reply>>

\* what the kit pipeline never touches
others == <<qa_sessions, assessments, study_sessions, reply>>

\* ------------------------------------------------------------ documents
\* ProcessingStatus(step, status, message, timestamp).dict(); owner names the
\* invocation whose add_log closure built the entry.
ProcessingStatus(r, step, status, message) ==
    [step |-> step, status |-> status, message |-> message,
     timestamp |-> "utcnow", owner |-> r]

\* processing_logs.append(log.dict())
add_log(logs, r, step, status, message) ==
    Append(logs, ProcessingStatus(r, step, status, message))

\* one element of content_items; pos is the position in target_styles of the
\* loop iteration that appended it
ContentItem(type, style, content, pos) ==
    [type |-> type, learning_style |-> style, content |-> content, pos |-> pos]

\* mutant: an item is kept only if no item of its type is there yet
append_item_unique(items, item) ==
    IF \E k \in 1..Len(items) : items[k].type = item.type
    THEN items ELSE Append(items, item)

\* mutant: the item is put in front of the list
append_item_front(items, item) == <<item>> \o items

\* content_items.append({...})
append_item(items, item) == Append(items, item)

\* the artifact each generator returns on its arguments
generate_summary(content, style) == <<"generate_summary", content, style>>
generate_flashcards(content) == <<"generate_flashcards", content>>
generate_audio_script(content) == <<"generate_audio_script", content>>
generate_visual_description(concept) == <<"generate_visual_description", concept>>
create_qa_index(content, topic) ==
    [topic |-> topic, indexed |-> content, status |-> "ready_for_queries"]

\* mutant: the time is estimated per target style, not per content item
LearningKit_per_style(id, req, items, logs) ==
    [id |-> id, user_id |-> req.user_id, topic |-> req.topic,
     source_content |-> req.source_content, content_items |-> items,
     learning_styles |-> req.target_styles, difficulty_level |-> "medium",
     estimated_time |-> Len(req.target_styles) * MinutesPerItem,
     created_at |-> "utcnow", processing_logs |-> logs]

\* LearningKit(...).dict(): the list arguments are copied by the model class
LearningKit(id, req, items, logs) ==
    [id |-> id,
     user_id |-> req.user_id,
     topic |-> req.topic,
     source_content |-> req.source_content,
     content_items |-> items,
     learning_styles |-> req.target_styles,
     difficulty_level |-> "medium",
     estimated_time |-> Len(items) * MinutesPerItem,
     created_at |-> "utcnow",
     processing_logs |-> logs]

\* mutant: the reduced document is built before the failed entry is logged
ErrorKit_stale_log(id, req, e, logs) ==
    [id |-> id, user_id |-> req.user_id, topic |-> req.topic,
     status |-> "failed", error |-> e,
     processing_logs |-> SubSeq(logs, 1, Len(logs) - 1),
     created_at |-> "utcnow"]

\* mutant: the failure record keeps the source content of the full kit
ErrorKit_with_source(id, req, e, logs) ==
    [id |-> id, user_id |-> req.user_id, topic |-> req.topic,
     source_content |-> req.source_content,
     status |-> "failed", error |-> e, processing_logs |-> logs,
     created_at |-> "utcnow"]

\* the reduced document the exception handler builds
ErrorKit(id, req, e, logs) ==
    [id |-> id,
     user_id |-> req.user_id,
     topic |-> req.topic,
     status |-> "failed",
     error |-> e,
     processing_logs |-> logs,
     created_at |-> "utcnow"]

\* mutant: the write is acknowledged but lost
insert_one_lost(collection, document) == collection

\* mutant: the write is applied twice
insert_one_twice(collection, document) ==
    Append(Append(collection, document), document)

\* db.<collection>.insert_one(document), when it returns
insert_one(collection, document) == Append(collection, document)

\* db.<collection>.find_one({"id": id}): the first match in insertion order
find_one(collection, id) ==
    LET hits == {k \in 1..Len(collection) : collection[k].id = id}
    IN  IF hits = {} THEN None
        ELSE collection[CHOOSE k \in hits : \A j \in hits : k <= j]

\* user.get("learning_styles", [TEXTUAL]) if user else [TEXTUAL]
ResolveStyles(user) ==
    IF user = None THEN <<TEXTUAL>> ELSE user.learning_styles

\* the responses of create_learning_kit
SuccessResponse(k, items, logs, index) ==
    [status_code |-> 200, success |-> TRUE, kit |-> k,
     content_count |-> Len(items), processing_logs |-> logs, qa_index |-> index]
ErrorResponse(e) ==
    [status_code |-> 500, detail |-> "Kit creation failed: " \o e]
\* an exception that leaves the handler uncaught
UnhandledResponse(e) ==
    [status_code |-> 500, detail |-> "Internal Server Error"]
NotFound == [status_code |-> 404, detail |-> "Learning kit not found"]

\* ------------------------------------------------ the synchronous stretch
\* The for loop from position i up to the next awaited call: the started entry
\* of each style met, the in_progress entry of the first generator to await,
\* and, past the last style, the in_progress entry of the QA index.
RECURSIVE LoopFrom_index_early(_, _, _, _)
\* mutant: the loop stops one style early and goes on to the QA index
LoopFrom_index_early(r, styles, i, logs) ==
    IF i >= Len(styles)
    THEN [pc |-> "await_qa_index", i |-> Len(styles) + 1,
          logs |-> add_log(logs, r, "qa_index", "in_progress", "Building QA search index")]
    ELSE LET style == styles[i]
             l1 == add_log(logs, r, style \o "_processing", "started",
                           "Processing content for " \o style)
         IN  CASE style = TEXTUAL ->
                    [pc |-> "await_summary", i |-> i,
                     logs |-> add_log(l1, r, "summarizing", "in_progress", "Analyzing content")]
               [] style = AUDITORY ->
                    [pc |-> "await_audio", i |-> i,
                     logs |-> add_log(l1, r, "audio", "in_progress", "Generating audio lesson script")]
               [] style = VISUAL ->
                    [pc |-> "await_doodle", i |-> i,
                     logs |-> add_log(l1, r, "doodle", "in_progress", "Creating visual doodle descriptions")]
               [] OTHER -> LoopFrom_index_early(r, styles, i + 1, l1)

RECURSIVE LoopFrom(_, _, _, _)
LoopFrom(r, styles, i, logs) ==
    IF i > Len(styles)
    THEN [pc |-> "await_qa_index", i |-> i,
          logs |-> add_log(logs, r, "qa_index", "in_progress", "Building QA search index")]
    ELSE LET style == styles[i]
             l1 == add_log(logs, r, style \o "_processing", "started",
                           "Processing content for " \o style)
         IN  CASE style = TEXTUAL ->
                    [pc |-> "await_summary", i |-> i,
                     logs |-> add_log(l1, r, "summarizing", "in_progress", "Analyzing content")]
               [] style = AUDITORY ->
                    [pc |-> "await_audio", i |-> i,
                     logs |-> add_log(l1, r, "audio", "in_progress", "Generating audio lesson script")]
               [] style = VISUAL ->
                    [pc |-> "await_doodle", i |-> i,
                     logs |-> add_log(l1, r, "doodle", "in_progress", "Creating visual doodle descriptions")]
               [] OTHER -> LoopFrom(r, styles, i + 1, l1)

\* mutant: processing_logs is one list of the module, shared by all runs
SetLogs_shared(all, r, logs) == [q \in DOMAIN all |-> logs]

\* per-run assignment to the local list processing_logs
SetLogs(all, r, logs) == [all EXCEPT ![r] = logs]

GeneratorPcs == {"await_summary", "await_flashcards", "await_audio", "await_doodle"}
AwaitPcs == GeneratorPcs \cup {"await_qa_index", "await_insert_kit"}
Terminal == {"completed", "failed", "aborted"}

\* str(uuid.uuid4()): a value no other invocation draws
KitId(r) == "kit" \o ToString(r)

\* ---------------------------------------------------------------- inputs
StyleLists(n) == SeqsUpTo(LearningStyle, n)

\* KitCreateRequest; target_styles None and [] are both the empty sequence
KitCreateRequest(topics, contents, lists) ==
    [user_id : UserIds, topic : topics, source_content : contents,
     target_styles : lists]

\* the requests of the one-at-a-time specification
Requests == KitCreateRequest(Topics, Contents, StyleLists(MaxStyles))

\* the request bodies of the validation runs: topic and source_content may
\* be the empty string or be left out
BodiesVal ==
    KitCreateRequest({"t1", ""}, {"c1", ""}, StyleLists(MaxStylesVal))
        \cup [user_id : UserIds, source_content : {"c1"},
              target_styles : StyleLists(MaxStylesVal)]
        \cup [user_id : UserIds, topic : {"t1"},
              target_styles : StyleLists(MaxStylesVal)]

\* the body parses as a KitCreateRequest: the three str fields are there
Validates(body) == {"user_id", "topic", "source_content"} \subseteq DOMAIN body

\* the answer to a body that does not parse
Unprocessable == [status_code |-> 422, detail |-> "field required"]

\* under interleaving each invocation gets a topic and a content of its own,
\* so that what it generates is told apart from what the other generates
TopicOf(r) == "topic" \o ToString(r)
ContentOf(r) == "content" \o ToString(r)
RequestsPar(r) ==
    KitCreateRequest({TopicOf(r)}, {ContentOf(r)}, StyleLists(MaxStylesPar))

Init ==
    /\ users = <<>>
    /\ learning_kits = <<>>
    /\ pc = [r \in Runs |-> "idle"]
    /\ request = [r \in Runs |-> None]
    /\ kit_id = [r \in Runs |-> NoId]
    /\ processing_logs = [r \in Runs |-> <<>>]
    /\ content_items = [r \in Runs |-> <<>>]
    /\ style_idx = [r \in Runs |-> 0]
    /\ qa_index = [r \in Runs |-> None]
    /\ kit = [r \in Runs |-> None]
    /\ error_kit = [r \in Runs |-> None]
    /\ response = [r \in Runs |-> None]
    /\ raised_at = [r \in Runs |-> Nowhere]
    /\ inserts = [r \in Runs |-> 0]
    /\ get_result = None
    /\ qa_sessions = <<>>
    /\ assessments = <<>>
    /\ study_sessions = <<>>
    /\ reply = None

\* --------------------------------------------------------------- actions
\* POST /api/users: a user document under a fresh id
create_user(u, styles) ==
    /\ find_one(users, u) = None
    /\ users' = insert_one(users, [id |-> u, learning_styles |-> styles])
    /\ UNCHANGED <<learning_kits, pc, request, kit_id, processing_logs,
                   content_items, style_idx, qa_index, kit, error_kit,
                   response, raised_at, inserts, get_result, others>>

\* GET /api/learning-kits/{kit_id}
get_learning_kit(id) ==
    /\ get_result' = (IF find_one(learning_kits, id) # None
                      THEN find_one(learning_kits, id) ELSE NotFound)
    /\ get_result' # get_result
    /\ UNCHANGED <<users, learning_kits, pc, request, kit_id, processing_logs,
                   content_items, style_idx, qa_index, kit, error_kit,
                   response, raised_at, inserts, others>>

\* the handler moves on to the suspension point st.pc
Proceed(r, st) ==
    /\ pc' = [pc EXCEPT ![r] = st.pc]
    /\ style_idx' = [style_idx EXCEPT ![r] = st.i]
    /\ processing_logs' = SetLogs(processing_logs, r, st.logs)

\* kit_id, processing_logs = [], the initialization entry, content_items = []
\* and the loop up to its first awaited call
EnterPipeline(r, req) ==
    /\ request' = [request EXCEPT ![r] = req]
    /\ kit_id' = [kit_id EXCEPT ![r] = KitId(r)]
    /\ content_items' = [content_items EXCEPT ![r] = <<>>]
    /\ Proceed(r, LoopFrom(r, req.target_styles, 1,
                  add_log(<<>>, r, "initialization", "started",
                          "Initializing kit creation for topic: " \o req.topic)))

\* the request arrives; explicit styles enter the pipeline at once, otherwise
\* the handler awaits db.users.find_one
ReceiveRequest(r, requests) ==
    /\ pc[r] = "idle"
    /\ \E req \in requests :
          /\ Validates(req)
          /\ IF req.target_styles # <<>>
             THEN /\ EnterPipeline(r, req)
                  /\ UNCHANGED <<users, learning_kits, qa_index, kit, error_kit,
                                 response, raised_at, inserts, get_result, others>>
             ELSE /\ request' = [request EXCEPT ![r] = req]
                  /\ pc' = [pc EXCEPT ![r] = "await_find_user"]
                  /\ UNCHANGED <<users, learning_kits, kit_id, processing_logs,
                                 content_items, style_idx, qa_index, kit,
                                 error_kit, response, raised_at, inserts,
                                 get_result, others>>

\* a body that does not parse is answered before create_learning_kit is called
RejectRequest(r, requests) ==
    /\ pc[r] = "idle"
    /\ \E req \in requests :
          /\ ~Validates(req)
          /\ request' = [request EXCEPT ![r] = req]
    /\ response' = [response EXCEPT ![r] = Unprocessable]
    /\ pc' = [pc EXCEPT ![r] = "rejected"]
    /\ UNCHANGED <<users, learning_kits, kit_id, processing_logs,
                   content_items, style_idx, qa_index, kit, error_kit,
                   raised_at, inserts, get_result, others>>

\* db.users.find_one returns: target_styles from the user, or [TEXTUAL]
FindUserReturns(r) ==
    /\ pc[r] = "await_find_user"
    /\ EnterPipeline(r, [request[r] EXCEPT !.target_styles =
                            ResolveStyles(find_one(users, request[r].user_id))])
    /\ UNCHANGED <<users, learning_kits, qa_index, kit, error_kit, response,
                   raised_at, inserts, get_result, others>>

\* generate_summary returns: the Summary item, its completed entry and the
\* in_progress entry of the flashcards
SummaryReturns(r) ==
    /\ pc[r] = "await_summary"
    /\ LET style == request[r].target_styles[style_idx[r]]
           summary == generate_summary(request[r].source_content, style)
       IN  /\ content_items' = [content_items EXCEPT ![r] =
                 append_item(@, ContentItem(SUMMARY, style, summary, style_idx[r]))]
           /\ processing_logs' = SetLogs(processing_logs, r,
                 add_log(add_log(processing_logs[r], r, "summarizing", "completed",
                                 "Summary generated successfully"),
                         r, "flashcards", "in_progress", "Creating interactive flashcards"))
    /\ pc' = [pc EXCEPT ![r] = "await_flashcards"]
    /\ UNCHANGED <<users, learning_kits, request, kit_id, style_idx, qa_index,
                   kit, error_kit, response, raised_at, inserts, get_result, others>>

\* a generator that ends a loop iteration returns: its item, its completed
\* entry, and the loop goes on to the next awaited call
IterationEnds(r, at, type, content, step, message) ==
    /\ pc[r] = at
    /\ LET style == request[r].target_styles[style_idx[r]]
       IN  /\ content_items' = [content_items EXCEPT ![r] =
                 append_item(@, ContentItem(type, style, content, style_idx[r]))]
           /\ Proceed(r, LoopFrom(r, request[r].target_styles, style_idx[r] + 1,
                 add_log(processing_logs[r], r, step, "completed", message)))
    /\ UNCHANGED <<users, learning_kits, request, kit_id, qa_index, kit,
                   error_kit, response, raised_at, inserts, get_result, others>>

FlashcardsReturns(r) ==
    IterationEnds(r, "await_flashcards", FLASHCARDS,
                  generate_flashcards(request[r].source_content),
                  "flashcards", "Generated flashcards")

AudioReturns(r) ==
    IterationEnds(r, "await_audio", AUDIO_LESSON,
                  generate_audio_script(request[r].source_content),
                  "audio", "Audio lesson script generated")

DoodleReturns(r) ==
    IterationEnds(r, "await_doodle", VISUAL_DOODLE,
                  generate_visual_description(request[r].topic),
                  "doodle", "Visual doodle description created")

\* create_qa_index returns: its completed entry, the LearningKit is built and
\* the handler awaits insert_one
QaIndexReturns(r) ==
    /\ pc[r] = "await_qa_index"
    /\ qa_index' = [qa_index EXCEPT ![r] =
          create_qa_index(request[r].source_content, request[r].topic)]
    /\ LET logs == add_log(processing_logs[r], r, "qa_index", "completed",
                           "QA index created and ready for queries")
       IN  /\ processing_logs' = SetLogs(processing_logs, r, logs)
           /\ kit' = [kit EXCEPT ![r] =
                 LearningKit(kit_id[r], request[r], content_items[r], logs)]
    /\ inserts' = [inserts EXCEPT ![r] = @ + 1]
    /\ pc' = [pc EXCEPT ![r] = "await_insert_kit"]
    /\ UNCHANGED <<users, learning_kits, request, kit_id, content_items,
                   style_idx, error_kit, response, raised_at, get_result, others>>

\* mutant: the kit keeps a reference to the local list, so the completion
\* entry appended before the write reaches the stored document
InsertKitReturns_aliased(r) ==
    /\ pc[r] = "await_insert_kit"
    /\ LET logs == add_log(processing_logs[r], r, "completion", "success",
                           "Learning kit created successfully")
           aliased == [kit[r] EXCEPT !.processing_logs = logs]
       IN  /\ learning_kits' = insert_one(learning_kits, aliased)
           /\ processing_logs' = SetLogs(processing_logs, r, logs)
           /\ response' = [response EXCEPT ![r] =
                 SuccessResponse(aliased, content_items[r], logs, qa_index[r])]
    /\ pc' = [pc EXCEPT ![r] = "completed"]
    /\ UNCHANGED <<users, request, kit_id, content_items, style_idx, qa_index,
                   kit, error_kit, raised_at, inserts, get_result, others>>

\* insert_one(kit.dict()) returns: the completion entry and the response
InsertKitReturns(r) ==
    /\ pc[r] = "await_insert_kit"
    /\ learning_kits' = insert_one(learning_kits, kit[r])
    /\ LET logs == add_log(processing_logs[r], r, "completion", "success",
                           "Learning kit created successfully")
       IN  /\ processing_logs' = SetLogs(processing_logs, r, logs)
           /\ response' = [response EXCEPT ![r] =
                 SuccessResponse(kit[r], content_items[r], logs, qa_index[r])]
    /\ pc' = [pc EXCEPT ![r] = "completed"]
    /\ UNCHANGED <<users, request, kit_id, content_items, style_idx, qa_index,
                   kit, error_kit, raised_at, inserts, get_result, others>>

\* except Exception as e: the failed entry, the reduced document, and the
\* handler awaits its insert_one
Handler(r, e) ==
    /\ raised_at' = [raised_at EXCEPT ![r] = pc[r]]
    /\ LET logs == add_log(processing_logs[r], r, "error", "failed",
                           "Error during kit creation: " \o e)
       IN  /\ processing_logs' = SetLogs(processing_logs, r, logs)
           /\ error_kit' = [error_kit EXCEPT ![r] =
                 ErrorKit(kit_id[r], request[r], e, logs)]
    /\ inserts' = [inserts EXCEPT ![r] = @ + 1]
    /\ pc' = [pc EXCEPT ![r] = "await_insert_error_kit"]
    /\ UNCHANGED <<users, learning_kits, request, kit_id, content_items,
                   style_idx, qa_index, kit, response, get_result, others>>

\* an awaited generator raises
GeneratorRaises(r, e) ==
    /\ pc[r] \in GeneratorPcs
    /\ Handler(r, e)

\* the awaited create_qa_index raises
QaIndexRaises(r, e) ==
    /\ pc[r] = "await_qa_index"
    /\ Handler(r, e)

\* the awaited insert_one(kit.dict()) raises: nothing is stored
InsertKitRaises(r, e) ==
    /\ pc[r] = "await_insert_kit"
    /\ Handler(r, e)

\* insert_one(error_kit) returns: raise HTTPException(500)
InsertErrorKitReturns(r) ==
    /\ pc[r] = "await_insert_error_kit"
    /\ learning_kits' = insert_one(learning_kits, error_kit[r])
    /\ response' = [response EXCEPT ![r] = ErrorResponse(error_kit[r].error)]
    /\ pc' = [pc EXCEPT ![r] = "failed"]
    /\ UNCHANGED <<users, request, kit_id, processing_logs, content_items,
                   style_idx, qa_index, kit, error_kit, raised_at, inserts,
                   get_result, others>>

\* insert_one(error_kit) raises inside the handler: the exception leaves
\* create_learning_kit
InsertErrorKitRaises(r, e) ==
    /\ pc[r] = "await_insert_error_kit"
    /\ response' = [response EXCEPT ![r] = UnhandledResponse(e)]
    /\ pc' = [pc EXCEPT ![r] = "aborted"]
    /\ UNCHANGED <<users, learning_kits, request, kit_id, processing_logs,
                   content_items, style_idx, qa_index, kit, error_kit,
                   raised_at, inserts, get_result, others>>

\* --------------------------------------------------------- ask_question
Questions == {"what", ""}

\* LocalAIService.answer_question on a question with a first word
answer_question(question, context, user_style) ==
    <<"answer_question", question, context, user_style>>

\* QASession(...).dict()
QASession(id, u, k, question, answer, context) ==
    [id |-> id, user_id |-> u, kit_id |-> k, question |-> question,
     answer |-> answer, context |-> context, timestamp |-> "utcnow"]

\* what the caller of ask_question gets, with the arguments of the call
AskReply(u, k, q, status, body) ==
    [op |-> "ask_question", user_id |-> u, kit_id |-> k, question |-> q,
     status_code |-> status, body |-> body]

\* an exception no handler catches: 500 with the name of the exception
Uncaught(exception) == [detail |-> "Internal Server Error", exception |-> exception]

\* POST /api/qa-sessions, the statements in their order: the kit lookup and
\* its 404, user.get on the user document, [0] on its styles,
\* kit["source_content"], question.lower().split()[0] in answer_question,
\* then the insert of the session
ask_question(u, k, q) ==
    LET found == find_one(learning_kits, k)
        user == find_one(users, u)
        fails(status, body) ==
            /\ reply' = AskReply(u, k, q, status, body)
            /\ UNCHANGED qa_sessions
    IN  /\ Len(qa_sessions) < MaxSessions
        /\ CASE found = None ->
                  fails(404, [detail |-> "Learning kit not found"])
             [] found # None /\ user = None ->
                  fails(500, Uncaught("AttributeError"))
             [] found # None /\ user # None /\ user.learning_styles = <<>> ->
                  fails(500, Uncaught("IndexError"))
             [] found # None /\ user # None /\ user.learning_styles # <<>>
                   /\ "source_content" \notin DOMAIN found ->
                  fails(500, Uncaught("KeyError"))
             [] found # None /\ user # None /\ user.learning_styles # <<>>
                   /\ "source_content" \in DOMAIN found /\ q = "" ->
                  fails(500, Uncaught("IndexError"))
             [] OTHER ->
                  LET user_style == user.learning_styles[1]
                      context == found.source_content
                      answer == answer_question(q, context, user_style)
                      id == "qa" \o ToString(Len(qa_sessions) + 1)
                  IN  /\ qa_sessions' = insert_one(qa_sessions,
                             QASession(id, u, k, q, answer, context))
                      /\ reply' = AskReply(u, k, q, 200,
                             [answer |-> answer, session_id |-> id,
                              personalized_for |-> user_style])
        /\ UNCHANGED <<users, learning_kits, pc, request, kit_id,
                       processing_logs, content_items, style_idx, qa_index,
                       kit, error_kit, response, raised_at, inserts,
                       get_result, assessments, study_sessions>>

\* ---------------------------------------------- save_learning_assessment
\* the keys of the scores dict, in the order the dict is built
ScoreKeys == <<VISUAL, AUDITORY, TEXTUAL, KINESTHETIC>>

Scores == [LearningStyle -> MinScore..MaxScore]

\* LearningAssessment; the four *_score fields are the function scores
LearningAssessment(u, scores) ==
    [user_id |-> u, scores |-> scores, answers |-> "answers"]

\* max(scores, key=scores.get) with the tie going to the last key
max_key_last(scores) ==
    LET RECURSIVE best(_, _)
        best(k, b) == IF k > Len(ScoreKeys) THEN b
                      ELSE best(k + 1, IF scores[ScoreKeys[k]] >= scores[b]
                                       THEN ScoreKeys[k] ELSE b)
    IN  best(2, ScoreKeys[1])

\* max(scores, key=scores.get): the keys in dict order, a later key
\* replacing the best so far only when its score is strictly greater
max_key(scores) ==
    LET RECURSIVE best(_, _)
        best(k, b) == IF k > Len(ScoreKeys) THEN b
                      ELSE best(k + 1, IF scores[ScoreKeys[k]] > scores[b]
                                       THEN ScoreKeys[k] ELSE b)
    IN  best(2, ScoreKeys[1])

\* the dominant styles: the comprehension over scores.items(), and the
\* fallback when it is empty
dominant_styles(scores) ==
    LET reached == SelectSeq(ScoreKeys, LAMBDA style : scores[style] >= DominantScore)
    IN  IF reached = <<>> THEN <<max_key(scores)>> ELSE reached

\* users.update_one({"id": id}, {"$set": {"learning_styles": styles}}):
\* the first document with the id, none when there is no such document
update_one(collection, id, styles) ==
    LET hits == {k \in 1..Len(collection) : collection[k].id = id}
    IN  IF hits = {} THEN collection
        ELSE LET first == CHOOSE k \in hits : \A j \in hits : k <= j
             IN  [collection EXCEPT ![first].learning_styles = styles]

\* POST /api/users/{user_id}/assessment, once, the scores of the assessment
\* being any of Scores
save_learning_assessment(u) ==
    /\ assessments = <<>>
    /\ \E scores \in Scores :
        LET dominant == dominant_styles(scores)
            id == "assessment" \o ToString(Len(assessments) + 1)
            assessment_data == [id |-> id, timestamp |-> "utcnow"]
                                   @@ LearningAssessment(u, scores)
        IN  /\ users' = update_one(users, u, dominant)
            /\ assessments' = insert_one(assessments, assessment_data)
            /\ reply' = [op |-> "save_learning_assessment", user_id |-> u,
                         message |-> "Assessment saved successfully",
                         dominant_styles |-> dominant, scores |-> scores]
    /\ UNCHANGED <<learning_kits, pc, request, kit_id, processing_logs,
                   content_items, style_idx, qa_index, kit, error_kit,
                   response, raised_at, inserts, get_result,
                   qa_sessions, study_sessions>>

\* ---------------------------------------------------- start_study_session
FOCUSED == "focused"
RELAXED == "relaxed"
ENERGETIC == "energetic"
STRESSED == "stressed"
CURIOUS == "curious"
MoodType == {FOCUSED, RELAXED, ENERGETIC, STRESSED, CURIOUS}

mood_strategies ==
    [mood \in MoodType |->
        CASE mood = FOCUSED ->
               [content_types |-> <<"summary", "flashcards", "quiz">>,
                difficulty |-> "high", break_frequency |-> 25,
                motivation |-> "Perfect! Your focused state is ideal for deep learning."]
          [] mood = RELAXED ->
               [content_types |-> <<"audio_lesson", "visual_doodle">>,
                difficulty |-> "medium", break_frequency |-> 15,
                motivation |-> "Great time to absorb information naturally and calmly."]
          [] mood = ENERGETIC ->
               [content_types |-> <<"flashcards", "quiz", "visual_doodle">>,
                difficulty |-> "medium-high", break_frequency |-> 20,
                motivation |-> "Channel that energy into active learning!"]
          [] mood = STRESSED ->
               [content_types |-> <<"audio_lesson", "summary">>,
                difficulty |-> "low", break_frequency |-> 10,
                motivation |-> "Take it easy. Learning should be enjoyable, not stressful."]
          [] mood = CURIOUS ->
               [content_types |-> <<"summary", "visual_doodle", "audio_lesson">>,
                difficulty |-> "medium", break_frequency |-> 30,
                motivation |-> "Your curiosity is a superpower! Explore and discover."]]

\* the study duration without its cap
study_duration_uncapped(time_available) == time_available

\* min(time_available, 45)
study_duration(time_available) ==
    IF time_available < MaxDuration THEN time_available ELSE MaxDuration

\* LocalAIService.suggest_study_approach
suggest_study_approach(mood, time_available, topic) ==
    LET strategy == IF mood \in DOMAIN mood_strategies
                    THEN mood_strategies[mood] ELSE mood_strategies[FOCUSED]
    IN  [recommended_content_types |-> strategy.content_types,
         study_duration |-> study_duration(time_available),
         difficulty_adjustment |-> strategy.difficulty,
         break_intervals |-> strategy.break_frequency,
         motivation_message |-> strategy.motivation,
         specific_tips |->
             <<"Start with " \o strategy.content_types[1] \o " content",
               "Take breaks every " \o ToString(strategy.break_frequency) \o " minutes",
               "Focus on " \o strategy.difficulty \o " difficulty level">>,
         estimated_completion |->
             ToString(study_duration(time_available)) \o " minutes for " \o topic]

\* StudySession as the tests post it, but for its mood and available_time
StudySession(u, mood, available_time) ==
    [user_id |-> u, mood |-> mood, available_time |-> available_time,
     energy_level |-> 8, focus_level |-> 9,
     preferred_content_types |-> <<"summary", "flashcards">>]

\* POST /api/users/{user_id}/study-session
start_study_session(u, mood, available_time) ==
    LET suggestions == suggest_study_approach(mood, available_time, "general")
        id == "session" \o ToString(Len(study_sessions) + 1)
        session_data == [id |-> id, timestamp |-> "utcnow",
                         ai_suggestions |-> suggestions]
                            @@ StudySession(u, mood, available_time)
    IN  /\ study_sessions = <<>>
        /\ study_sessions' = insert_one(study_sessions, session_data)
        /\ reply' = [op |-> "start_study_session", user_id |-> u,
                     mood |-> mood, available_time |-> available_time,
                     session_id |-> id, suggestions |-> suggestions,
                     message |-> "Study session started"]
        /\ UNCHANGED <<users, learning_kits, pc, request, kit_id,
                       processing_logs, content_items, style_idx, qa_index,
                       kit, error_kit, response, raised_at, inserts,
                       get_result, qa_sessions, assessments>>

\* -------------------------------------------- the generators on real text
\* A text is a sequence of characters, each a one-character string.
IsSpace(c) == c \in {" ", "\n"}

\* s[:n]
Take(s, n) == SubSeq(s, 1, IF n < Len(s) THEN n ELSE Len(s))

\* s[n:]
Drop(s, n) == SubSeq(s, n + 1, Len(s))

\* s.startswith(sub)
StartsWith(s, sub) == Len(sub) <= Len(s) /\ Take(s, Len(sub)) = sub

\* sub in s
Contains(s, sub) == \E i \in 0..Len(s) : StartsWith(Drop(s, i), sub)

\* s.strip()
strip(s) ==
    LET inked == {i \in 1..Len(s) : ~IsSpace(s[i])}
    IN  IF inked = {} THEN <<>>
        ELSE SubSeq(s, CHOOSE i \in inked : \A j \in inked : i <= j,
                       CHOOSE i \in inked : \A j \in inked : j <= i)

\* s.replace(old, new) for a non-empty old: every occurrence, left to right
RECURSIVE replace(_, _, _)
replace(s, old, new) ==
    LET starts == {i \in 0..Len(s) : StartsWith(Drop(s, i), old)}
    IN  IF starts = {} THEN s
        ELSE LET i == CHOOSE i \in starts : \A j \in starts : i <= j
             IN  Take(s, i) \o new \o replace(Drop(s, i + Len(old)), old, new)

\* s.split(sep) for a non-empty sep: the parts, empty ones included
RECURSIVE split(_, _)
split(s, sep) ==
    LET starts == {i \in 0..Len(s) : StartsWith(Drop(s, i), sep)}
    IN  IF starts = {} THEN <<s>>
        ELSE LET i == CHOOSE i \in starts : \A j \in starts : i <= j
             IN  <<Take(s, i)>> \o split(Drop(s, i + Len(sep)), sep)

\* s.split(): the words between runs of whitespace
RECURSIVE split_words(_)
split_words(s) ==
    LET inked == {i \in 1..Len(s) : ~IsSpace(s[i])}
    IN  IF inked = {} THEN <<>>
        ELSE LET first == CHOOSE i \in inked : \A j \in inked : i <= j
                 spaces == {i \in first..Len(s) : IsSpace(s[i])}
                 last == IF spaces = {} THEN Len(s)
                         ELSE (CHOOSE i \in spaces : \A j \in spaces : i <= j) - 1
             IN  <<SubSeq(s, first, last)>> \o split_words(Drop(s, last))

\* sep.join(parts)
RECURSIVE join(_, _)
join(parts, sep) ==
    IF parts = <<>> THEN <<>>
    ELSE IF Len(parts) = 1 THEN parts[1]
    ELSE parts[1] \o sep \o join(Tail(parts), sep)

\* [s.strip() for s in parts]
RECURSIVE strip_each(_)
strip_each(parts) ==
    IF parts = <<>> THEN <<>>
    ELSE <<strip(Head(parts))>> \o strip_each(Tail(parts))

Blank == <<"_", "_", "_", "_">>
FillInTheBlank == <<"F", "i", "l", "l", " ", "i", "n", " ", "t", "h", "e", " ", "b", "l", "a", "n", "k", ":", " ">>
WhatIs == <<"W", "h", "a", "t", " ", "i", "s", " ">>
ThinkAbout == <<"T", "h", "i", "n", "k", " ", "a", "b", "o", "u", "t", ":", " ">>
Ellipsis == <<".", ".", ".">>
KeyConceptAnswer == <<"A", " ", "k", "e", "y", " ", "c", "o", "n", "c", "e", "p", "t", " ", "r", "e", "l", "a", "t", "e", "d", " ", "t", "o", " ", "t", "h", "e", " ", "m", "a", "i", "n", " ", "t", "o", "p", "i", "c">>
ContextHint == <<"C", "o", "n", "t", "e", "x", "t", ":", " ", ".", ".", ".">>

\* sentence.replace(key_word, "____") leaving the sentence as it is
blank_out_nothing(sentence, key_word) == sentence

\* sentence.replace(key_word, "____")
blank_out(sentence, key_word) == replace(sentence, key_word, Blank)

\* the card of a sentence of more than 5 words
sentence_card(sentence) ==
    LET words == split_words(sentence)
        key_word == words[(Len(words) \div 2) + 1]
    IN  [question |-> FillInTheBlank \o blank_out(sentence, key_word),
         answer |-> key_word,
         hint |-> ThinkAbout \o Take(sentence, HintLength) \o Ellipsis]

\* the card of a concept word
concept_card(word) ==
    [question |-> WhatIs \o word \o <<"?">>,
     answer |-> KeyConceptAnswer,
     hint |-> ContextHint \o word \o Ellipsis]

\* the cards of the sentences of more than 5 words, in their order
RECURSIVE sentence_cards(_)
sentence_cards(sentences) ==
    IF sentences = <<>> THEN <<>>
    ELSE <<sentence_card(Head(sentences))>> \o sentence_cards(Tail(sentences))

\* the loop over topic_words: a word longer than 5 adds a card while there
\* are fewer than count
RECURSIVE add_concepts(_, _, _)
add_concepts(flashcards, topic_words, count) ==
    IF topic_words = <<>> THEN flashcards
    ELSE add_concepts(
            IF Len(Head(topic_words)) > ConceptLength /\ Len(flashcards) < count
            THEN Append(flashcards, concept_card(Head(topic_words)))
            ELSE flashcards,
            Tail(topic_words), count)

\* LocalAIService.generate_flashcards on a text, for a count of 0 or more
flashcards_of(content, count) ==
    LET parts == split(replace(content, <<"\n">>, <<" ">>), <<".">>)
        sentences == SelectSeq(strip_each(parts),
                               LAMBDA s : Len(s) > CardSentenceLength)
        carded == SelectSeq(Take(sentences, count),
                            LAMBDA s : Len(split_words(s)) > CardWords)
        flashcards == sentence_cards(carded)
        padded == IF Len(flashcards) < count
                  THEN add_concepts(flashcards, Take(split_words(content), TopicWords), count)
                  ELSE flashcards
    IN  Take(padded, count)

\* [... for s in sentences[:3] if len(s.strip()) > 20], before the s.strip() + '.'
first_then_qualifying(sentences) ==
    SelectSeq(Take(sentences, KeySentences), LAMBDA s : Len(strip(s)) > KeySentenceLength)

\* [s.strip() + '.' for s in kept]
RECURSIVE close_each(_)
close_each(kept) ==
    IF kept = <<>> THEN <<>>
    ELSE <<strip(Head(kept)) \o <<".">>>> \o close_each(Tail(kept))

\* [sentence.split(' ')[0] for sentence in key_sentences]
RECURSIVE first_words(_)
first_words(lines) ==
    IF lines = <<>> THEN <<>>
    ELSE <<split(Head(lines), <<" ">>)[1]>> \o first_words(Tail(lines))

\* key_sentences of generate_summary
key_sentences(content) ==
    LET sentences == split(replace(content, <<"\n">>, <<" ">>), <<".", " ">>)
        kept == first_then_qualifying(sentences)
    IN  close_each(kept)

\* LocalAIService.generate_summary on a text; the summary as its parts: the
\* style of its heading, one line per key sentence, and what the style adds
\* (the key concept, the excerpt, the words to apply)
summary_of(content, style) ==
    LET lines == key_sentences(content)
    IN  [heading |-> style,
         lines |-> lines,
         added |-> CASE style = VISUAL -> <<split(content, <<".">>)[1] \o <<".">>>>
                     [] style = AUDITORY -> <<>>
                     [] style = TEXTUAL -> <<Take(content, ExcerptLength) \o Ellipsis>>
                     [] OTHER -> first_words(lines)]

\* a sentence of n times the character c
Rep(c, n) == [i \in 1..n |-> c]

\* the sentences of the texts for flashcards: one with a card, one whose
\* key word comes more than once, one too short, one of two long words on
\* two lines
CardSentences ==
    { <<"a", " ", "b", "b", " ", "c", " ", "k", "e", "y", " ", "d", " ", "e", "e">>,
      <<"a", "b", " ", "a", " ", "a", "b", " ", "a", " ", "b", " ", "a", "b">>,
      <<"h", "i", " ", "y", "o", "u">>,
      <<"a", "b", "c", "d", "e", "f", "g", "\n", "h", "i", "j", "k", "l", "m", "n">> }

\* the sentences of the texts for summaries: one too short, one of 20
\* characters after a space, one of 21 characters
SummarySentences ==
    { <<"H", "i">>,
      <<" ">> \o Rep("y", KeySentenceLength),
      Rep("x", KeySentenceLength + 1) }

\* the texts: up to n of the sentences, each ended by a period, a space
\* between two, and the empty text
Texts(sentences, n) ==
    {join(q, <<".", " ">>) \o <<".">> : q \in SeqsUpTo(sentences, n) \ {<<>>}} \cup {<<>>}

\* a call of generate_flashcards
GenerateFlashcards(content, count) ==
    /\ reply = None
    /\ reply' = [op |-> "generate_flashcards", content |-> content,
                 count |-> count, flashcards |-> flashcards_of(content, count)]
    /\ UNCHANGED <<users, learning_kits, pc, request, kit_id,
                   processing_logs, content_items, style_idx, qa_index,
                   kit, error_kit, response, raised_at, inserts,
                   get_result, qa_sessions, assessments, study_sessions>>

\* a call of generate_summary
GenerateSummary(content, style) ==
    /\ reply = None
    /\ reply' = [op |-> "generate_summary", content |-> content,
                 style |-> style, summary |-> summary_of(content, style)]
    /\ UNCHANGED <<users, learning_kits, pc, request, kit_id,
                   processing_logs, content_items, style_idx, qa_index,
                   kit, error_kit, response, raised_at, inserts,
                   get_result, qa_sessions, assessments, study_sessions>>

\* ------------------------------------------------------- specifications
\* one request served at a time, against any users
Next ==
    \/ \E u \in UserIds, styles \in StyleLists(MaxUserStyles) : create_user(u, styles)
    \/ \E r \in SeqRuns : get_learning_kit(KitId(r))
    \/ \E r \in SeqRuns : ReceiveRequest(r, Requests)
    \/ \E r \in SeqRuns : FindUserReturns(r)
    \/ \E r \in SeqRuns : SummaryReturns(r)
    \/ \E r \in SeqRuns : FlashcardsReturns(r)
    \/ \E r \in SeqRuns : AudioReturns(r)
    \/ \E r \in SeqRuns : DoodleReturns(r)
    \/ \E r \in SeqRuns : QaIndexReturns(r)
    \/ \E r \in SeqRuns : InsertKitReturns(r)
    \/ \E r \in SeqRuns, e \in Errors : GeneratorRaises(r, e)
    \/ \E r \in SeqRuns, e \in Errors : QaIndexRaises(r, e)
    \/ \E r \in SeqRuns, e \in Errors : InsertKitRaises(r, e)
    \/ \E r \in SeqRuns : InsertErrorKitReturns(r)
    \/ \E r \in SeqRuns, e \in Errors : InsertErrorKitRaises(r, e)

Spec == Init /\ [][Next]_vars

\* two requests in flight, interleaving at their suspension points
NextPar ==
    \/ \E r \in Runs : ReceiveRequest(r, RequestsPar(r))
    \/ \E r \in Runs : FindUserReturns(r)
    \/ \E r \in Runs : SummaryReturns(r)
    \/ \E r \in Runs : FlashcardsReturns(r)
    \/ \E r \in Runs : AudioReturns(r)
    \/ \E r \in Runs : DoodleReturns(r)
    \/ \E r \in Runs : QaIndexReturns(r)
    \/ \E r \in Runs : InsertKitReturns(r)
    \/ \E r \in Runs : GeneratorRaises(r, "e1")
    \/ \E r \in Runs : QaIndexRaises(r, "e1")
    \/ \E r \in Runs : InsertKitRaises(r, "e1")
    \/ \E r \in Runs : InsertErrorKitReturns(r)
    \/ \E r \in Runs : InsertErrorKitRaises(r, "e1")

SpecPar == Init /\ [][NextPar]_vars

\* one request whose body may lack or leave empty its topic and its content
NextVal ==
    \/ \E r \in SeqRuns : ReceiveRequest(r, BodiesVal)
    \/ \E r \in SeqRuns : RejectRequest(r, BodiesVal)
    \/ \E r \in SeqRuns : FindUserReturns(r)
    \/ \E r \in SeqRuns : SummaryReturns(r)
    \/ \E r \in SeqRuns : FlashcardsReturns(r)
    \/ \E r \in SeqRuns : AudioReturns(r)
    \/ \E r \in SeqRuns : DoodleReturns(r)
    \/ \E r \in SeqRuns : QaIndexReturns(r)
    \/ \E r \in SeqRuns : InsertKitReturns(r)
    \/ \E r \in SeqRuns : GeneratorRaises(r, "e1")
    \/ \E r \in SeqRuns : QaIndexRaises(r, "e1")
    \/ \E r \in SeqRuns : InsertKitRaises(r, "e1")
    \/ \E r \in SeqRuns : InsertErrorKitReturns(r)
    \/ \E r \in SeqRuns : InsertErrorKitRaises(r, "e1")

SpecVal == Init /\ [][NextVal]_vars

\* one assessment saved for a user who is registered before or after it
NextAssess ==
    \/ \E u \in UserIds, styles \in StyleLists(MaxUserStyles) : create_user(u, styles)
    \/ \E u \in UserIds : save_learning_assessment(u)

SpecAssess == Init /\ [][NextAssess]_vars

\* one study session started
NextStudy ==
    \E u \in UserIds, mood \in MoodType, available_time \in 1..MaxTime :
        start_study_session(u, mood, available_time)

SpecStudy == Init /\ [][NextStudy]_vars

\* one call of a generator on a text
NextGen ==
    \/ \E content \in Texts(CardSentences, MaxCardSentences), count \in 0..MaxCount :
          GenerateFlashcards(content, count)
    \/ \E content \in Texts(SummarySentences, MaxSentences), style \in LearningStyle :
          GenerateSummary(content, style)

SpecGen == Init /\ [][NextGen]_vars

\* the requests of the runs kept small
RequestsSmall == KitCreateRequest(Topics, Contents, StyleLists(MaxStylesVal))

\* questions asked while users register and one kit is created
NextQA ==
    \/ \E u \in UserIds, styles \in StyleLists(MaxUserStyles) : create_user(u, styles)
    \/ \E u \in UserIds, r \in SeqRuns, q \in Questions : ask_question(u, KitId(r), q)
    \/ \E r \in SeqRuns : ReceiveRequest(r, RequestsSmall)
    \/ \E r \in SeqRuns : FindUserReturns(r)
    \/ \E r \in SeqRuns : SummaryReturns(r)
    \/ \E r \in SeqRuns : FlashcardsReturns(r)
    \/ \E r \in SeqRuns : AudioReturns(r)
    \/ \E r \in SeqRuns : DoodleReturns(r)
    \/ \E r \in SeqRuns : QaIndexReturns(r)
    \/ \E r \in SeqRuns : InsertKitReturns(r)
    \/ \E r \in SeqRuns : GeneratorRaises(r, "e1")
    \/ \E r \in SeqRuns : QaIndexRaises(r, "e1")
    \/ \E r \in SeqRuns : InsertKitRaises(r, "e1")
    \/ \E r \in SeqRuns : InsertErrorKitReturns(r)
    \/ \E r \in SeqRuns : InsertErrorKitRaises(r, "e1")

SpecQA == Init /\ [][NextQA]_vars

\* ==================================================== claims C1 .. C10
\* positions of the documents stored under a kit id
StoredFor(id) == {k \in 1..Len(learning_kits) : learning_kits[k].id = id}
IsFullKit(doc) == "content_items" \in DOMAIN doc
IsFailedKit(doc) == "status" \in DOMAIN doc /\ doc.status = "failed"
ReducedFields == {"id", "user_id", "topic", "status", "error",
                  "processing_logs", "created_at"}

\* the outcome Completed: the full kit is stored and a success is returned
CompletedOutcome(r) ==
    /\ \E k \in StoredFor(KitId(r)) : IsFullKit(learning_kits[k])
    /\ response[r] # None
    /\ response[r].status_code = 200
\* the outcome Failed: a failed record with the log so far is stored and a
\* server error is returned
FailedOutcome(r) ==
    /\ \E k \in StoredFor(KitId(r)) :
          /\ IsFailedKit(learning_kits[k])
          /\ learning_kits[k].processing_logs = processing_logs[r]
    /\ response[r] # None
    /\ response[r].status_code = 500

\* C1 as stated: every invocation that has ended has reached exactly one of
\* the outcomes Completed and Failed, wherever the exception occurred.
C1_ExactlyOneOutcome ==
    \A r \in SeqRuns :
        pc[r] \in Terminal => (CompletedOutcome(r) # FailedOutcome(r))

\* C1 amended: an invocation that ended without the insert of the failure
\* record raising has reached exactly one of Completed and Failed (Failed
\* whenever an exception was caught, also one raised by the insert of the
\* completed kit); when the insert of the failure record raises, nothing is
\* stored under the kit id and the caller still gets a server error; before
\* the end nothing is stored and nothing is returned.
C1_OutcomeUnlessFailureInsertRaises ==
    \A r \in SeqRuns :
        /\ pc[r] = "completed" =>
              /\ CompletedOutcome(r) /\ ~FailedOutcome(r)
              /\ raised_at[r] = Nowhere
        /\ pc[r] = "failed" =>
              /\ FailedOutcome(r) /\ ~CompletedOutcome(r)
              /\ raised_at[r] \in AwaitPcs
        /\ pc[r] = "aborted" =>
              /\ StoredFor(KitId(r)) = {}
              /\ raised_at[r] \in AwaitPcs
              /\ response[r] # None /\ response[r].status_code = 500
        /\ pc[r] \notin Terminal =>
              /\ StoredFor(KitId(r)) = {}
              /\ response[r] = None

\* C1 witness: the insert of the completed kit raised and the run ended Failed
C1_Witness ==
    \E r \in SeqRuns :
        /\ pc[r] = "failed"
        /\ raised_at[r] = "await_insert_kit"
        /\ Len(content_items[r]) > 0

\* the <<step, status>> pairs of a log, in order
StepsOf(logs) == [k \in 1..Len(logs) |-> <<logs[k].step, logs[k].status>>]

\* the pairs a fully processed style leaves in the log
StyleSteps(style) ==
    CASE style = TEXTUAL ->
           << <<"textual_processing", "started">>,
              <<"summarizing", "in_progress">>, <<"summarizing", "completed">>,
              <<"flashcards", "in_progress">>, <<"flashcards", "completed">> >>
      [] style = AUDITORY ->
           << <<"auditory_processing", "started">>,
              <<"audio", "in_progress">>, <<"audio", "completed">> >>
      [] style = VISUAL ->
           << <<"visual_processing", "started">>,
              <<"doodle", "in_progress">>, <<"doodle", "completed">> >>
      [] OTHER -> << <<"kinesthetic_processing", "started">> >>

\* how many of them precede the await of each generator
StepsBefore(at) == IF at = "await_flashcards" THEN 4 ELSE 2

RECURSIVE StepsOfStyles(_, _)
\* the pairs of the first n styles of a list, all fully processed
StepsOfStyles(styles, n) ==
    IF n = 0 THEN <<>>
    ELSE StepsOfStyles(styles, n - 1) \o StyleSteps(styles[n])

\* the pairs of a run whose generator raised at suspension point at while
\* style k was processed
FailedSteps(styles, k, at) ==
    << <<"initialization", "started">> >>
        \o StepsOfStyles(styles, k - 1)
        \o SubSeq(StyleSteps(styles[k]), 1, StepsBefore(at))
        \o << <<"error", "failed">> >>

\* C2: when a generator raised while style k was processed, the log of the
\* stored failed kit is the initialization entry, the entries of styles
\* 1..k-1, the entries of style k up to the exception, and one final failed
\* entry whose message carries the exception message.
C2_FailedLogIsExactPrefix ==
    \A r \in SeqRuns :
        (pc[r] = "failed" /\ raised_at[r] \in GeneratorPcs) =>
            LET doc == find_one(learning_kits, KitId(r))
                logs == doc.processing_logs
            IN  /\ IsFailedKit(doc)
                /\ StepsOf(logs) = FailedSteps(request[r].target_styles,
                                               style_idx[r], raised_at[r])
                /\ logs[Len(logs)].message =
                       "Error during kit creation: " \o doc.error
                /\ response[r].detail = "Kit creation failed: " \o doc.error

\* C2 witness: the flashcards generator raised in the second style
C2_Witness ==
    \E r \in SeqRuns :
        /\ pc[r] = "failed"
        /\ raised_at[r] = "await_flashcards"
        /\ style_idx[r] = 2

\* C3: after a failed run the one record stored under the kit id is the
\* reduced record (status failed, the six other fields, no content items, no
\* source content), no full kit is stored under that id, and a
\* get_learning_kit on that id answers with that record.
C3_FailedKitIsReduced ==
    [][\A r \in SeqRuns :
          pc'[r] = "failed" =>
              LET doc == find_one(learning_kits', KitId(r))
              IN  /\ Cardinality(StoredFor(KitId(r))') = 1
                  /\ doc # None
                  /\ DOMAIN doc = ReducedFields
                  /\ doc.status = "failed"
                  /\ doc.id = kit_id'[r]
                  /\ doc.error \in Errors
                  /\ doc.processing_logs = processing_logs'[r]
                  /\ get_result' # get_result => get_result' = doc]_vars

\* C3 witness: a failed run that had generated content items, read back
C3_Witness ==
    \E r \in SeqRuns :
        /\ pc[r] = "failed"
        /\ Len(content_items[r]) > 0
        /\ get_result = find_one(learning_kits, KitId(r))

\* C4 as stated: an invocation issues at most one insert into the kit store.
C4_AtMostOneInsertIssued ==
    \A r \in SeqRuns : inserts[r] <= 1

\* C4 amended: an invocation stores at most one record under its kit id, the
\* store only ever grows by one appended document (no stored kit is updated),
\* and a second insert is issued only after the insert of the completed kit
\* raised and stored nothing.
C4_AtMostOneRecordStored ==
    [][/\ Len(learning_kits') <= Len(learning_kits) + 1
       /\ SubSeq(learning_kits', 1, Len(learning_kits)) = learning_kits
       /\ \A r \in SeqRuns :
             /\ Cardinality(StoredFor(KitId(r))') <= 1
             /\ inserts'[r] <= 2
             /\ inserts'[r] = 2 => raised_at'[r] = "await_insert_kit"]_vars

\* C4 witness: the second insert has stored the failure record
C4_Witness ==
    \E r \in SeqRuns :
        /\ inserts[r] = 2
        /\ pc[r] = "failed"
        /\ Cardinality(StoredFor(KitId(r))) = 1

\* the items a style contributes, by type and in order
TypesFor(style) ==
    CASE style = TEXTUAL -> <<SUMMARY, FLASHCARDS>>
      [] style = AUDITORY -> <<AUDIO_LESSON>>
      [] style = VISUAL -> <<VISUAL_DOODLE>>
      [] OTHER -> <<>>

RECURSIVE ItemCount(_, _)
\* the number of items the first n styles of a list contribute
ItemCount(styles, n) ==
    IF n = 0 THEN 0 ELSE ItemCount(styles, n - 1) + Len(TypesFor(styles[n]))

\* the document of a completed run, as stored
CompletedKit(r) == find_one(learning_kits, KitId(r))

\* C5: in every completed kit, whatever the target styles, estimated_time is
\* 10 times the number of content items, and the response's content_count is
\* that number.
C5_EstimatedTimeIsTenPerItem ==
    \A r \in SeqRuns :
        pc[r] = "completed" =>
            LET doc == CompletedKit(r)
            IN  /\ IsFullKit(doc)
                /\ doc.estimated_time = 10 * Len(doc.content_items)
                /\ response[r].content_count = Len(doc.content_items)
                /\ response[r].kit.estimated_time = doc.estimated_time

\* C5 witness: a completed kit for twice the textual style
C5_Witness ==
    \E r \in SeqRuns :
        /\ pc[r] = "completed"
        /\ request[r].target_styles = <<TEXTUAL, TEXTUAL>>
        /\ CompletedKit(r).estimated_time = 40

\* C6: in a completed kit each occurrence of a style contributes its fixed
\* items: textual a Summary then a Flashcards set, auditory one AudioLesson,
\* visual one VisualDoodle, kinesthetic none; target styles [textual] give 2
\* items and estimated_time 20.
C6_ItemsPerStyle ==
    \A r \in SeqRuns :
        pc[r] = "completed" =>
            LET doc == CompletedKit(r)
                styles == doc.learning_styles
                items == doc.content_items
                of(i) == SelectSeq(items, LAMBDA it : it.pos = i)
            IN  /\ Len(items) = ItemCount(styles, Len(styles))
                /\ \A i \in 1..Len(styles) :
                      /\ Len(of(i)) = Len(TypesFor(styles[i]))
                      /\ \A k \in 1..Len(of(i)) : of(i)[k].type = TypesFor(styles[i])[k]
                /\ styles = <<TEXTUAL>> =>
                      /\ Len(items) = 2
                      /\ doc.estimated_time = 20

\* C6 witness: the completed kit of target styles [textual]
C6_Witness ==
    \E r \in SeqRuns :
        /\ pc[r] = "completed"
        /\ request[r].target_styles = <<TEXTUAL>>
        /\ Len(CompletedKit(r).content_items) = 2

\* C7: in a completed kit the content items are in the order of the target
\* styles (an item of an earlier position never follows an item of a later
\* one) and each item is tagged with the style it was generated for.
C7_ItemsInStyleOrder ==
    \A r \in SeqRuns :
        pc[r] = "completed" =>
            LET doc == CompletedKit(r)
                styles == doc.learning_styles
                items == doc.content_items
            IN  /\ \A a, b \in 1..Len(items) :
                      a < b => items[a].pos <= items[b].pos
                /\ \A a \in 1..Len(items) :
                      /\ items[a].pos \in 1..Len(styles)
                      /\ items[a].learning_style = styles[items[a].pos]
                /\ response[r].kit.content_items = items

\* C7 witness: a completed kit of two different generating styles
C7_Witness ==
    \E r \in SeqRuns :
        /\ pc[r] = "completed"
        /\ request[r].target_styles = <<VISUAL, TEXTUAL>>
        /\ Len(CompletedKit(r).content_items) = 3

\* the styles C8 expects for a request without styles
StylesForUser(user) ==
    IF user # None /\ user.learning_styles # <<>>
    THEN user.learning_styles ELSE <<TEXTUAL>>

\* C8 as stated: the pipeline runs on the caller's styles when these are not
\* empty, otherwise on the styles stored for the user, otherwise (no such
\* user, or a user without stored styles) on exactly [textual].
C8_ResolvedStyles ==
    [][\A r \in SeqRuns :
          /\ (pc[r] = "idle" /\ pc'[r] # "idle") =>
                (pc'[r] = "await_find_user") = (request'[r].target_styles = <<>>)
          /\ (pc[r] = "await_find_user" /\ pc'[r] # "await_find_user") =>
                request'[r].target_styles =
                    StylesForUser(find_one(users, request[r].user_id))]_vars

\* C9: when invocations interleave, each one's log grows only by its own
\* appends, holds only entries of its own add_log, its items are generated
\* from its own request, and what it stores and returns is its own log and
\* its own items.
C9_RunsDoNotMix ==
    [][\A r \in Runs :
          /\ \A k \in 1..Len(processing_logs'[r]) :
                processing_logs'[r][k].owner = r
          /\ pc[r] \notin {"idle", "await_find_user"} =>
                /\ Len(processing_logs[r]) <= Len(processing_logs'[r])
                /\ SubSeq(processing_logs'[r], 1, Len(processing_logs[r]))
                      = processing_logs[r]
          /\ \A k \in 1..Len(content_items'[r]) :
                content_items'[r][k].content[2] \in {TopicOf(r), ContentOf(r)}
          /\ \A k \in StoredFor(KitId(r))' :
                LET doc == learning_kits'[k]
                IN  /\ doc.topic = TopicOf(r)
                    /\ \A j \in 1..Len(doc.processing_logs) :
                          doc.processing_logs[j] = processing_logs'[r][j]
                    /\ IsFullKit(doc) => doc.content_items = content_items'[r]
          /\ pc'[r] = "completed" =>
                /\ response'[r].processing_logs = processing_logs'[r]
                /\ response'[r].kit.content_items = content_items'[r]]_vars

\* C9 witness: both invocations are in flight together, each with items of
\* its own, one about to store its kit and the other its failure record
C9_Witness ==
    /\ pc[1] = "await_insert_kit"
    /\ pc[2] = "await_insert_error_kit"
    /\ Len(content_items[1]) > 0
    /\ Len(content_items[2]) > 0

LogStatuses == {"started", "in_progress", "completed", "failed"}

\* C10 as stated: every entry appended to a processing log has a status among
\* started, in_progress, completed, failed.
C10_StatusInEnum ==
    \A r \in SeqRuns :
        \A k \in 1..Len(processing_logs[r]) :
            processing_logs[r][k].status \in LogStatuses

\* C11 as stated: the response always carries the log of the run: the full
\* log on success, and on failure every entry captured before the fault.
C11_ResponseCarriesLog ==
    \A r \in SeqRuns :
        pc[r] \in {"completed", "failed"} =>
            /\ "processing_logs" \in DOMAIN response[r]
            /\ response[r].processing_logs = processing_logs[r]

\* the positions of the started entries of the styles in a log
StyleStarts(logs) ==
    {k \in 1..Len(logs) :
        logs[k].status = "started" /\ logs[k].step # "initialization"}

\* the first position after k that opens the next style or the QA index
NextStage(logs, k) ==
    LET later == {j \in (k + 1)..Len(logs) :
                     j \in StyleStarts(logs) \/ logs[j].step = "qa_index"}
    IN  CHOOSE j \in later : \A i \in later : j <= i

\* C17 as stated: on a successful run every style of the target list,
\* kinesthetic included, has its started entry followed by a completed entry
\* before the started entry of the next style and before the QA-index entries.
C17_StartedThenCompleted ==
    \A r \in SeqRuns :
        pc[r] = "completed" =>
            LET logs == response[r].processing_logs
            IN  /\ Cardinality(StyleStarts(logs)) = Len(request[r].target_styles)
                /\ \A k \in StyleStarts(logs) :
                      \E j \in (k + 1)..(NextStage(logs, k) - 1) :
                          logs[j].status = "completed"

\* the positions of the QA-index entries of a log
QaEntries(logs) == {k \in 1..Len(logs) : logs[k].step = "qa_index"}

\* C18: the QA indexer is invoked at most once and only after the last style
\* is fully processed: every entry of every style precedes its entries, a run
\* that fails in the style loop never invokes it, and on success its
\* completed entry is the last entry of the kit that is persisted.
C18_IndexOnceAfterStyles ==
    \A r \in SeqRuns :
        LET logs == processing_logs[r]
            styles == request[r].target_styles
            qa == QaEntries(logs)
        IN  /\ Cardinality({k \in qa : logs[k].status = "in_progress"}) <= 1
            /\ Cardinality({k \in qa : logs[k].status = "completed"}) <= 1
            /\ raised_at[r] \in GeneratorPcs => (qa = {} /\ qa_index[r] = None)
            /\ qa # {} =>
                  LET first == CHOOSE k \in qa : \A j \in qa : k <= j
                  IN  /\ logs[first].status = "in_progress"
                      /\ StepsOf(SubSeq(logs, 1, first - 1)) =
                            << <<"initialization", "started">> >>
                                \o StepsOfStyles(styles, Len(styles))
            /\ pc[r] = "completed" =>
                  LET stored == CompletedKit(r).processing_logs
                  IN  /\ qa_index[r] # None
                      /\ Cardinality(QaEntries(stored)) = 2
                      /\ stored[Len(stored)].step = "qa_index"
                      /\ stored[Len(stored)].status = "completed"

\* C18 witness: a completed run of two styles, indexed once
C18_Witness ==
    \E r \in SeqRuns :
        /\ pc[r] = "completed"
        /\ request[r].target_styles = <<AUDITORY, TEXTUAL>>
        /\ Cardinality(QaEntries(processing_logs[r])) = 2

\* C20: on a successful run the log stored with the kit, and the log of the
\* kit in the response, is the response's log without its final entry, the
\* completion entry, which is returned but never stored.
C20_CompletionEntryNotStored ==
    \A r \in SeqRuns :
        pc[r] = "completed" =>
            LET stored == CompletedKit(r).processing_logs
                sent == response[r].processing_logs
            IN  /\ Len(sent) = Len(stored) + 1
                /\ SubSeq(sent, 1, Len(stored)) = stored
                /\ sent[Len(sent)].step = "completion"
                /\ response[r].kit.processing_logs = stored
                /\ \A k \in 1..Len(stored) : stored[k].step # "completion"

\* C20 witness: a completed run whose response log ends with the completion
\* entry
C20_Witness ==
    \E r \in SeqRuns :
        /\ pc[r] = "completed"
        /\ Len(content_items[r]) > 0
        /\ response[r].processing_logs[Len(response[r].processing_logs)].step
              = "completion"

\* the body lacks its topic or its content, or gives the empty string
Unspecified(body) ==
    \/ "topic" \notin DOMAIN body
    \/ "source_content" \notin DOMAIN body
    \/ (IF "topic" \in DOMAIN body THEN body.topic = "" ELSE FALSE)
    \/ (IF "source_content" \in DOMAIN body THEN body.source_content = "" ELSE FALSE)

\* C12 as stated: a request whose topic or source_content is missing or empty
\* is rejected before the pipeline starts: no log entry, no generated item,
\* nothing inserted into the kit store.
C12_UnspecifiedIsRejected ==
    \A r \in SeqRuns :
        (request[r] # None /\ Unspecified(request[r])) =>
            /\ pc[r] = "rejected"
            /\ processing_logs[r] = <<>>
            /\ content_items[r] = <<>>
            /\ learning_kits = <<>>

\* C13 as stated: whenever the kit or the user it names does not exist,
\* ask_question reports not found and stores no QA session.
C13_LookupMissIsNotFound ==
    [][(reply' # reply /\ reply'.op = "ask_question"
          /\ (\/ find_one(learning_kits, reply'.kit_id) = None
              \/ find_one(users, reply'.user_id) = None))
        => (reply'.status_code = 404 /\ qa_sessions' = qa_sessions)]_vars

\* the styles whose score is at least 7, in the order visual, auditory,
\* textual, kinesthetic
AtLeastSeven(scores) ==
    SelectSeq(<<VISUAL, AUDITORY, TEXTUAL, KINESTHETIC>>, LAMBDA s : scores[s] >= 7)

\* the first style, in that order, whose score no other score exceeds
FirstMaximum(scores) ==
    LET order == <<VISUAL, AUDITORY, TEXTUAL, KINESTHETIC>>
        tops == {k \in 1..4 : \A j \in 1..4 : scores[order[j]] <= scores[order[k]]}
    IN  order[CHOOSE k \in tops : \A j \in tops : k <= j]

TestScores == [s \in LearningStyle |->
                 CASE s = VISUAL -> 8 [] s = AUDITORY -> 6
                   [] s = TEXTUAL -> 9 [] s = KINESTHETIC -> 5]

\* C14: save_learning_assessment answers, for all four scores in 1..10, with
\* a non-empty list of dominant styles: the styles scoring at least 7 or,
\* when there is none, the one first style with the maximum score; a user
\* who is registered has the learning_styles overwritten by this list; the
\* scores 8, 6, 9, 5 give visual and textual.
C14_DominantStyles ==
    [][(reply' # reply /\ reply'.op = "save_learning_assessment") =>
        LET scores == reply'.scores
            dominant == reply'.dominant_styles
        IN  /\ dominant # <<>>
            /\ AtLeastSeven(scores) # <<>> => dominant = AtLeastSeven(scores)
            /\ AtLeastSeven(scores) = <<>> => dominant = <<FirstMaximum(scores)>>
            /\ scores = TestScores => dominant = <<VISUAL, TEXTUAL>>
            /\ find_one(users, reply'.user_id) # None =>
                  /\ find_one(users', reply'.user_id).learning_styles = dominant
                  /\ Len(users') = Len(users)
            /\ find_one(users, reply'.user_id) = None => users' = users]_vars

\* a registered user with another style has saved scores below 7 with a tie
\* for the maximum, and now has the first of the tied styles
C14_Witness ==
    /\ reply # None /\ reply.op = "save_learning_assessment"
    /\ reply.scores[VISUAL] = 3 /\ reply.scores[AUDITORY] = 6
    /\ reply.scores[TEXTUAL] = 6 /\ reply.scores[KINESTHETIC] = 2
    /\ find_one(users, reply.user_id) # None
    /\ find_one(users, reply.user_id).learning_styles = <<AUDITORY>>
    /\ Len(assessments) = 1

\* C15: for each of the five moods and every positive available_time the
\* suggestions are the row of the mood (content types in order, difficulty,
\* break interval) and study_duration is the smaller of available_time and
\* 45; stressed with 60 minutes gives 45, low, audio_lesson then summary.
C15_MoodRowAndCappedDuration ==
    (reply # None /\ reply.op = "start_study_session") =>
        LET s == reply.suggestions
            row == mood_strategies[reply.mood]
            t == reply.available_time
        IN  /\ reply.mood \in {"focused", "relaxed", "energetic", "stressed", "curious"}
            /\ s.recommended_content_types = row.content_types
            /\ s.difficulty_adjustment = row.difficulty
            /\ s.break_intervals = row.break_frequency
            /\ s.study_duration <= t /\ s.study_duration <= 45
            /\ s.study_duration = t \/ s.study_duration = 45
            /\ (reply.mood = "stressed" /\ t = 60) =>
                  /\ s.study_duration = 45
                  /\ s.difficulty_adjustment = "low"
                  /\ s.recommended_content_types = <<"audio_lesson", "summary">>
            /\ study_sessions[1].ai_suggestions = s

\* a stressed learner with 60 minutes got suggestions
C15_Witness ==
    /\ reply # None /\ reply.op = "start_study_session"
    /\ reply.mood = "stressed" /\ reply.available_time = 60
    /\ reply.suggestions.study_duration < reply.available_time

\* C16: for every content and every count, generate_flashcards returns at
\* most count cards, and every card made from a sentence (a "Fill in the
\* blank" card) has the marker ____ in its question and an answer that is
\* not empty.
C16_AtMostCountAndBlanked ==
    (reply # None /\ reply.op = "generate_flashcards") =>
        /\ Len(reply.flashcards) <= reply.count
        /\ \A k \in 1..Len(reply.flashcards) :
              LET card == reply.flashcards[k]
              IN  StartsWith(card.question, FillInTheBlank) =>
                     /\ Contains(Drop(card.question, Len(FillInTheBlank)),
                                 <<"_", "_", "_", "_">>)
                     /\ card.answer # <<>>

\* as many cards as asked for, the first made from a sentence whose key
\* word came more than once, the last a concept question
C16_Witness ==
    /\ reply # None /\ reply.op = "generate_flashcards"
    /\ reply.count = MaxCount
    /\ Len(reply.flashcards) = reply.count
    /\ StartsWith(reply.flashcards[1].question, FillInTheBlank)
    /\ reply.flashcards[1].answer = <<"a">>
    /\ StartsWith(reply.flashcards[MaxCount].question, WhatIs)
    /\ Len(split(reply.content, <<".">>)) > MaxCount + 1

\* the sentences of a text that qualify: those of more than 20 characters
\* once trimmed
Qualifying(content) ==
    SelectSeq(split(replace(content, <<"\n">>, <<" ">>), <<".", " ">>),
              LAMBDA s : Len(strip(s)) > 20)

\* C19 as stated: whenever the content has at least 3 qualifying sentences,
\* the key sentences of the summary are exactly the first 3 of them, also
\* when sentences that do not qualify come before or between them.
C19_FirstThreeQualifying ==
    (reply # None /\ reply.op = "generate_summary"
       /\ Len(Qualifying(reply.content)) >= 3) =>
        /\ Len(reply.summary.lines) = 3
        /\ \A k \in 1..3 :
              reply.summary.lines[k] = strip(Qualifying(reply.content)[k]) \o <<".">>

\* C21: after any create_learning_kit and ask_question calls, every stored
\* QA session names a kit stored as completed (the full document, not the
\* failure record) and has that kit's source_content as its context; an
\* ask_question naming a failed kit stores no session and returns no answer.
C21_SessionsOfCompletedKitsOnly ==
    /\ \A k \in 1..Len(qa_sessions) :
          LET doc == find_one(learning_kits, qa_sessions[k].kit_id)
          IN  /\ doc # None
              /\ IsFullKit(doc) /\ ~IsFailedKit(doc)
              /\ qa_sessions[k].context = doc.source_content
    /\ (reply # None /\ reply.op = "ask_question") =>
          LET doc == find_one(learning_kits, reply.kit_id)
          IN  (doc # None /\ IsFailedKit(doc)) =>
                 /\ reply.status_code # 200
                 /\ "answer" \notin DOMAIN reply.body
                 /\ qa_sessions = <<>>

\* a registered user with a style asked a question about a failed kit
C21_Witness ==
    /\ reply # None /\ reply.op = "ask_question"
    /\ reply.question # ""
    /\ find_one(learning_kits, reply.kit_id) # None
    /\ IsFailedKit(find_one(learning_kits, reply.kit_id))
    /\ find_one(users, reply.user_id) # None
    /\ find_one(users, reply.user_id).learning_styles # <<>>
    /\ reply.status_code = 500
    /\ qa_sessions = <<>>

====
